---- MODULE Spec2Model ----
(***************************************************************************)
(* Disaster Recon UAV: the operating state machine (motor_control.h), the  *)
(* hazard thresholds of the fast tick, the remote-control handler, the     *)
(* cloud handshake and the serial framing of the main sketch.              *)
(*                                                                         *)
(* Floating point quantities (temperature, humidity, pitch, roll, yaw) are *)
(* held in tenths: 30.0 degrees C is 300.  Times are milliseconds of       *)
(* millis().                                                               *)
(*                                                                         *)
(* An event of the trace is a triple <<kind, a, b>>:                       *)
(*   <<"changed", old, new>>   Serial "State changed: old -> new"          *)
(*   <<"motor", "on"|"off", 0>>, <<"rgb", colour, 0>>, <<"lcd", page, 0>>  *)
(*   <<"beep", count, toneMs>>  a buzzer pattern                           *)
(*   <<"serial", line, 0>>      a line printed for the collector           *)
(***************************************************************************)
EXTENDS Integers, Sequences, FiniteSets, TLC

VARIABLES
    currentState,    \* motor_control.h: int currentState
    previousState,   \* motor_control.h: int previousState
    motor,           \* L293D enable: TRUE when the motor runs
    rgb,             \* colour shown by the RGB LED
    lcd,             \* page shown by the LCD
    clock,           \* millis()
    trace,           \* actuations and notifications of the running handler
    currentData,     \* sketch: SensorData currentData
    cloudConnected,  \* sketch: bool cloudConnected
    lastDHTUpdate,   \* sketch: unsigned long lastDHTUpdate
    lastUpdateTime,  \* sketch: unsigned long lastUpdateTime
    currentTime,     \* loop(): unsigned long currentTime
    startTime,       \* connectToCloud(): unsigned long startTime
    pc,              \* position of the sketch inside loop()
    op,              \* the handler or call that produced this state
    presses,         \* remote-control presses still to come
    lastSent,        \* millis() when the last record was printed, -1: none
    hostOut,         \* the characters the host writes to the serial line
    arrived,         \* how many of them have reached the receive buffer
    consumed,        \* how many of them Serial.read() has taken
    receivedString,  \* readThingSpeakData(): static String receivedString
    receivedTSData   \* sketch: ThingSpeakData receivedTSData

(* the serial line from the host and what readThingSpeakData() keeps *)
inbound == <<hostOut, arrived, consumed, receivedString, receivedTSData>>

vars == <<currentState, previousState, motor, rgb, lcd, clock, trace,
          currentData, cloudConnected, lastDHTUpdate, lastUpdateTime,
          currentTime, startTime, pc, op, presses, lastSent, inbound>>

-----------------------------------------------------------------------------
(* config.h *)

STATE_OFF == 0
STATE_IDLE == 1
STATE_ACTIVE == 2
STATE_ALERT == 3
STATE_ERROR == 4
MQ2_THRESHOLD == 460
MAX_DISTANCE == 400
UPDATE_INTERVAL == 15000

States == {STATE_OFF, STATE_IDLE, STATE_ACTIVE, STATE_ALERT, STATE_ERROR}

(* Thresholds written as literals in loop(); temperatures, humidities and  *)
(* angles in tenths.                                                       *)
FIRE_TEMP == 300
BLIZZARD_TEMP == 200
HURRICANE_LOW == 990
HURRICANE_HIGH == 1200
OBSTACLE_DISTANCE == 5
TILT_LIMIT == 450
DHT_INTERVAL == 2000
CLOUD_TIMEOUT == 5000
LOOP_DELAY == 50
DHT_ERROR == -9990

(* currentTime - last...: unsigned long subtraction.  The clock of a run   *)
(* stays below MaxTime, far from the 32 bit wrap of millis(), and no       *)
(* timestamp is ever ahead of the clock, so the difference is exact.       *)
Elapsed(now, since) == now - since

-----------------------------------------------------------------------------
(* The part of the state the drivers and the state machine work on.        *)

Ev(kind, a) == <<kind, a, 0>>

delay(m, ms) == [m EXCEPT !.clock = @ + ms]

Log(m, e) == [m EXCEPT !.trace = Append(@, e)]

(* motor_control.h *)
motorOn(m) == Log([m EXCEPT !.motor = TRUE], Ev("motor", "on"))

(* faulty variant: the enable pin is left as it was *)
motorOff_EnableLeftOn(m) == Log(m, Ev("motor", "off"))

motorOff(m) == Log([m EXCEPT !.motor = FALSE], Ev("motor", "off"))

(* actuators.h *)
setRGBColor(m, colour) == Log([m EXCEPT !.rgb = colour], Ev("rgb", colour))

rgbOff(m) == setRGBColor(m, "Off")
rgbGreen(m) == setRGBColor(m, "Green")
rgbBlue(m) == setRGBColor(m, "Blue")
rgbRed(m) == setRGBColor(m, "Red")
rgbYellow(m) == setRGBColor(m, "Yellow")
rgbPurple(m) == setRGBColor(m, "Purple")
rgbOrange(m) == setRGBColor(m, "Orange")
rgbCyan(m) == setRGBColor(m, "Cyan")
rgbDeepBlue(m) == setRGBColor(m, "DeepBlue")

lcdPage(m, page) == Log([m EXCEPT !.lcd = page], Ev("lcd", page))

lcdBacklight(m) == Log(m, Ev("lcd", "backlight"))

displayReady(m) == lcdPage(lcdBacklight(m), "Ready to Fly!")
displayOff(m) == lcdPage(lcdBacklight(m), "UAV OFF")
displayAlert(m) == lcdPage(lcdBacklight(m), "!!! ALERT !!!")
displayError(m) == lcdPage(lcdBacklight(m), "SENSOR ERROR")

beepShort(m) == delay(Log(m, <<"beep", 1, 100>>), 150)
beepReady(m) == beepShort(m)
beepIR(m) == beepShort(m)
beepStateChange(m) == beepShort(m)
beepObstacle(m) == delay(Log(m, <<"beep", 5, 80>>), 750)
beepEnvironmental(m) == delay(Log(m, <<"beep", 3, 300>>), 1800)
beepHazard(m) == beepEnvironmental(m)

(* sensors.h *)
(* faulty variant: the threshold itself is not hazardous *)
isHazardousGas_Above(gasLevel) == gasLevel > MQ2_THRESHOLD

isHazardousGas(gasLevel) == gasLevel >= MQ2_THRESHOLD

-----------------------------------------------------------------------------
(* motor_control.h: the state machine *)

(* faulty variant: Alert is entered without the hazard beeps *)
enterState_SilentAlert(m) ==
    CASE m.currentState = STATE_OFF ->
            displayOff(rgbOff(motorOff(m)))
      [] m.currentState = STATE_IDLE ->
            lcdPage(lcdBacklight(rgbPurple(motorOn(m))), "UAV ACTIVE")
      [] m.currentState = STATE_ACTIVE ->
            lcdBacklight(rgbGreen(motorOn(m)))
      [] m.currentState = STATE_ALERT ->
            displayAlert(rgbRed(motorOn(m)))
      [] m.currentState = STATE_ERROR ->
            displayError(rgbYellow(motorOff(m)))
      [] OTHER -> m

(* the switch of setState: the actions bound to the state just entered *)
enterState(m) ==
    CASE m.currentState = STATE_OFF ->
            displayOff(rgbOff(motorOff(m)))
      [] m.currentState = STATE_IDLE ->
            lcdPage(lcdBacklight(rgbPurple(motorOn(m))), "UAV ACTIVE")
      [] m.currentState = STATE_ACTIVE ->
            lcdBacklight(rgbGreen(motorOn(m)))
      [] m.currentState = STATE_ALERT ->
            beepHazard(displayAlert(rgbRed(motorOn(m))))
      [] m.currentState = STATE_ERROR ->
            displayError(rgbYellow(motorOff(m)))
      [] OTHER -> m

(* faulty variant: the actions of a state are applied at every call *)
setState_Always(m, newState) ==
    LET moved == [m EXCEPT !.previousState = m.currentState,
                           !.currentState = newState]
        beeped == beepStateChange(moved)
        told == Log(beeped, <<"changed", beeped.previousState,
                              beeped.currentState>>)
    IN  enterState(told)

setState(m, newState) ==
    IF newState # m.currentState
    THEN LET moved == [m EXCEPT !.previousState = m.currentState,
                                !.currentState = newState]
             beeped == beepStateChange(moved)
             told == Log(beeped, <<"changed", beeped.previousState,
                                   beeped.currentState>>)
         IN  enterState(told)
    ELSE m

(* faulty variant: a cleared hazard returns to Idle *)
updateState_ToIdle(m, data) ==
    IF m.currentState = STATE_OFF
    THEN m
    ELSE IF isHazardousGas(data.gasLevel)
    THEN setState(m, STATE_ALERT)
    ELSE IF m.currentState \in {STATE_IDLE, STATE_ACTIVE, STATE_ALERT}
    THEN IF m.currentState # STATE_IDLE
         THEN setState(m, STATE_IDLE)
         ELSE m
    ELSE m

(* faulty variant: without a hazard the vehicle is switched off *)
updateState_OffWhenClear(m, data) ==
    IF m.currentState = STATE_OFF
    THEN m
    ELSE IF isHazardousGas(data.gasLevel)
    THEN setState(m, STATE_ALERT)
    ELSE setState(m, STATE_OFF)

(* sensors.h, readAllSensors(): data.valid *)
valid(data) == data.temperature # DHT_ERROR /\ data.humidity # DHT_ERROR

(* faulty variant: the validity check that the sketch has disabled is made *)
updateState_Validating(m, data) ==
    IF m.currentState = STATE_OFF
    THEN m
    ELSE IF ~valid(data)
    THEN setState(m, STATE_ERROR)
    ELSE IF isHazardousGas(data.gasLevel)
    THEN setState(m, STATE_ALERT)
    ELSE IF m.currentState \in {STATE_IDLE, STATE_ACTIVE, STATE_ALERT}
    THEN IF m.currentState # STATE_ACTIVE
         THEN setState(m, STATE_ACTIVE)
         ELSE m
    ELSE m

updateState(m, data) ==
    IF m.currentState = STATE_OFF
    THEN m
    ELSE IF isHazardousGas(data.gasLevel)
    THEN setState(m, STATE_ALERT)
    ELSE IF m.currentState \in {STATE_IDLE, STATE_ACTIVE, STATE_ALERT}
    THEN IF m.currentState # STATE_ACTIVE
         THEN setState(m, STATE_ACTIVE)
         ELSE m
    ELSE m

-----------------------------------------------------------------------------
(* sensors.h: the readings.  A DHT reading is [nan, val]; the echo is the  *)
(* pulse length in microseconds, 0 when pulseIn timed out.                 *)

readTemperature(raw) == IF raw.nan THEN DHT_ERROR ELSE raw.val

readHumidity(raw) == IF raw.nan THEN DHT_ERROR ELSE raw.val

(* int distance = duration * 0.034 / 2, truncated *)
readDistance(duration) ==
    LET distance == (duration * 34) \div 2000
    IN  IF duration = 0 \/ distance > MAX_DISTANCE THEN -1 ELSE distance

(* Arduino.h: #define abs(x) ((x)>0?(x):-(x)) *)
abs(x) == IF x > 0 THEN x ELSE -x

-----------------------------------------------------------------------------
(* loop(): the threshold tests of the fast tick, in the order of the       *)
(* if / else if chain, and what each branch does.                          *)

isFire(data) == data.temperature >= FIRE_TEMP

(* faulty variant: exactly 20 degrees is not cold *)
isBlizzard_Below(data) == data.temperature < BLIZZARD_TEMP

isBlizzard(data) == data.temperature <= BLIZZARD_TEMP

isHurricane(data) ==
    data.humidity >= HURRICANE_LOW /\ data.humidity <= HURRICANE_HIGH

(* faulty variant: the lower bound of the distance is forgotten *)
isObstacle_NoFloor(data) == data.distance < OBSTACLE_DISTANCE

isObstacle(data) == data.distance > 0 /\ data.distance < OBSTACLE_DISTANCE

isTilt(data) == abs(data.pitch) > TILT_LIMIT \/ abs(data.roll) > TILT_LIMIT

environmentalAlert(m, page, colour) ==
    rgbOff(delay(setRGBColor(beepEnvironmental(lcdPage(m, page)), colour), 100))

mechanicalAlert(m, page) ==
    rgbOff(delay(rgbRed(beepObstacle(lcdPage(m, page))), 50))

(* faulty variant: the humidity is tested before the temperature *)
hazardAlert_HumidityFirst(m, data) ==
    IF isHurricane(data)
    THEN environmentalAlert(m, "HURRICANE!", "DeepBlue")
    ELSE IF isFire(data) THEN environmentalAlert(m, "FIRE DETECTED!", "Orange")
    ELSE IF isBlizzard(data) THEN environmentalAlert(m, "BLIZZARD!", "Cyan")
    ELSE IF isHazardousGas(data.gasLevel)
    THEN environmentalAlert(m, "GAS DETECTED!", "Yellow")
    ELSE IF isObstacle(data) THEN mechanicalAlert(m, "OBSTACLE!")
    ELSE IF isTilt(data) THEN mechanicalAlert(m, "TILT ALERT!")
    ELSE m

(* faulty variant: a fire raises the Alert state *)
hazardAlert_FireAlerts(m, data) ==
    IF isFire(data)
    THEN setState(environmentalAlert(m, "FIRE DETECTED!", "Orange"),
                  STATE_ALERT)
    ELSE IF isBlizzard(data) THEN environmentalAlert(m, "BLIZZARD!", "Cyan")
    ELSE IF isHurricane(data)
    THEN environmentalAlert(m, "HURRICANE!", "DeepBlue")
    ELSE IF isHazardousGas(data.gasLevel)
    THEN environmentalAlert(m, "GAS DETECTED!", "Yellow")
    ELSE IF isObstacle(data) THEN mechanicalAlert(m, "OBSTACLE!")
    ELSE IF isTilt(data) THEN mechanicalAlert(m, "TILT ALERT!")
    ELSE m

hazardAlert(m, data) ==
    IF isFire(data) THEN environmentalAlert(m, "FIRE DETECTED!", "Orange")
    ELSE IF isBlizzard(data) THEN environmentalAlert(m, "BLIZZARD!", "Cyan")
    ELSE IF isHurricane(data)
    THEN environmentalAlert(m, "HURRICANE!", "DeepBlue")
    ELSE IF isHazardousGas(data.gasLevel)
    THEN environmentalAlert(m, "GAS DETECTED!", "Yellow")
    ELSE IF isObstacle(data) THEN mechanicalAlert(m, "OBSTACLE!")
    ELSE IF isTilt(data) THEN mechanicalAlert(m, "TILT ALERT!")
    ELSE m

-----------------------------------------------------------------------------
(* Bounds and input sets *)

MaxTime == 32000
MaxPresses == 4

(* Moments (ms of millis()) at which the operator may press a button of    *)
(* the remote, the first MaxPresses of them; the code is seen by the first *)
(* loop() iteration after the press.                                       *)
PressTimes == <<0, 16000, 19000, 24000, 27000, 29000>>

IR_BUTTON_ON == 1206453597
IR_BUTTON_OFF == 1004189389
IRCodes == {0, IR_BUTTON_ON, IR_BUTTON_OFF}

Reading(v) == [nan |-> FALSE, val |-> v]
NoReading == [nan |-> TRUE, val |-> 0]

(* what the sensors may return during a run of the whole sketch: the       *)
(* samples <<temperature, humidity, echo, pitch, roll>> of a quiet scene,  *)
(* of a fire, of a failed DHT probe, of a storm, of a wall 3 cm ahead and  *)
(* of a vehicle on its side; and the gas levels                            *)
LoopSamples ==
    { <<Reading(250), Reading(500), 0, 0, 0>>,
      <<Reading(350), Reading(500), 0, 0, 0>>,
      <<NoReading, NoReading, 0, 0, 0>>,
      <<Reading(250), Reading(1100), 0, 0, 0>>,
      <<Reading(250), Reading(500), 200, 0, 0>>,
      <<Reading(250), Reading(500), 0, 0, 500>> }
LoopGas == {100, 460}
Yaws == {0}
GasLevels == {100, 459, 460, 1023}

(* what the sensors may return when one fast tick is examined *)
Temps == {NoReading, Reading(199), Reading(200), Reading(201), Reading(250),
          Reading(299), Reading(300), Reading(350)}
Humids == {NoReading, Reading(500), Reading(989), Reading(990),
           Reading(1100), Reading(1200), Reading(1201)}
Echoes == {0, 30, 59, 120, 180, 290, 300, 9000, 25000}
Angles == {-900, -451, -450, 0, 450, 451}

(* the host's answer to CONNECT_CLOUD: the moments after the request at    *)
(* which a line may have arrived, and the lines                            *)
ReplyTimes == {0, 1000}
ReplyLines == {"CLOUD_OK", "CLOUD_FAIL", "HELLO"}

-----------------------------------------------------------------------------
(* The state the drivers work on, as a record, and back. *)

M ==
    [currentState |-> currentState, previousState |-> previousState,
     motor |-> motor, rgb |-> rgb, lcd |-> lcd, clock |-> clock,
     trace |-> trace]

Store(m) ==
    /\ currentState' = m.currentState
    /\ previousState' = m.previousState
    /\ motor' = m.motor
    /\ rgb' = m.rgb
    /\ lcd' = m.lcd
    /\ clock' = m.clock
    /\ trace' = m.trace

Fresh(m) == [m EXCEPT !.trace = <<>>]

(* globals before setup() *)
PowerOn ==
    [currentState |-> STATE_OFF, previousState |-> STATE_OFF,
     motor |-> FALSE, rgb |-> "Off", lcd |-> "", clock |-> 0,
     trace |-> <<>>]

initializeLCD(m) == lcdPage(lcdBacklight(m), "UAV Initializing")
initializeRGB(m) == setRGBColor(m, "Off")
initializeMotor(m) == [m EXCEPT !.motor = FALSE]

setup(m) ==
    rgbPurple(displayReady(beepReady(
        initializeMotor(initializeRGB(delay(initializeLCD(m), 2000))))))

(* ThingSpeakData receivedTSData: a global, zero before the first record *)
NoRecord ==
    [temp |-> 0, humid |-> 0, gas |-> 0, dist |-> 0, state |-> 0,
     pitch |-> 0, roll |-> 0, yaw |-> 0]

(* nothing has been sent by the host *)
NoInbound ==
    /\ hostOut = <<>>
    /\ arrived = 0
    /\ consumed = 0
    /\ receivedString = <<>>
    /\ receivedTSData = NoRecord

NoData ==
    [temperature |-> 0, humidity |-> 0, gasLevel |-> 0, distance |-> 0,
     pitch |-> 0, roll |-> 0, yaw |-> 0]

Load(m) ==
    /\ currentState = m.currentState
    /\ previousState = m.previousState
    /\ motor = m.motor
    /\ rgb = m.rgb
    /\ lcd = m.lcd
    /\ clock = m.clock
    /\ trace = m.trace

Init ==
    /\ Load(Fresh(setup(PowerOn)))
    /\ currentData = NoData
    /\ cloudConnected = FALSE
    /\ lastDHTUpdate = 0
    /\ lastUpdateTime = 0
    /\ currentTime = 0
    /\ startTime = 0
    /\ pc = "loop"
    /\ op = "setup"
    /\ presses = 1
    /\ lastSent = -1
    /\ NoInbound

-----------------------------------------------------------------------------
(* The characters of the serial line.  A character is a string of length   *)
(* one, a line a sequence of characters.                                   *)

Digits == <<"0", "1", "2", "3", "4", "5", "6", "7", "8", "9">>

isDigit(c) == \E i \in 1..10 : Digits[i] = c

digitValue(c) == (CHOOSE i \in 1..10 : Digits[i] = c) - 1

(* Print::printNumber: the decimal digits of n >= 0 *)
RECURSIVE printNumber(_)
printNumber(n) ==
    IF n < 10
    THEN <<Digits[n + 1]>>
    ELSE Append(printNumber(n \div 10), Digits[(n % 10) + 1])

(* Serial.print(int) *)
printInt(n) == IF n < 0 THEN <<"-">> \o printNumber(-n) ELSE printNumber(n)

(* Serial.print(float, 1): sign, integral part, point, one digit; the      *)
(* argument is in tenths                                                   *)
printFloat(t) ==
    (IF t < 0 THEN <<"-">> ELSE <<>>)
        \o printNumber(abs(t) \div 10) \o <<".">> \o <<Digits[(abs(t) % 10) + 1]>>

(* sendDataToSerial(): the line printed for the values                     *)
(* <<temp, humid, gas, dist, state, pitch, roll, yaw>>                     *)
csvLine(v) ==
    printFloat(v[1]) \o <<",">> \o printFloat(v[2]) \o <<",">>
        \o printInt(v[3]) \o <<",">> \o printInt(v[4]) \o <<",">>
        \o printInt(v[5]) \o <<",">> \o printFloat(v[6]) \o <<",">>
        \o printFloat(v[7]) \o <<",">> \o printFloat(v[8]) \o <<"\r", "\n">>

-----------------------------------------------------------------------------
(* readThingSpeakData() *)

Accepted(c) == isDigit(c) \/ c \in {".", "-", "|"}

(* the while loop over Serial.available(): in is what the receive buffer   *)
(* holds, n the characters taken so far                                    *)
RECURSIVE readSerial(_, _, _)
readSerial(buf, in, n) ==
    IF in = <<>>
    THEN [receivedString |-> buf, taken |-> n, newData |-> FALSE]
    ELSE IF Head(in) = "\n"
    THEN [receivedString |-> buf, taken |-> n + 1, newData |-> TRUE]
    ELSE readSerial(IF Accepted(Head(in)) THEN Append(buf, Head(in)) ELSE buf,
                    Tail(in), n + 1)

(* the characters of s before its first delimiter *)
RECURSIVE span(_)
span(s) == IF s = <<>> \/ Head(s) = "|" THEN 0 ELSE 1 + span(Tail(s))

(* strtok(tempStr, "|") and the strtok(NULL, "|") that follow: the tokens; *)
(* delimiters in a row separate nothing                                    *)
RECURSIVE strtok(_)
strtok(s) ==
    IF s = <<>> THEN <<>>
    ELSE IF Head(s) = "|" THEN strtok(Tail(s))
    ELSE <<SubSeq(s, 1, span(s))>> \o strtok(SubSeq(s, span(s) + 2, Len(s)))

RECURSIVE leadingDigits(_)
leadingDigits(s) ==
    IF s = <<>> \/ ~isDigit(Head(s)) THEN 0 ELSE 1 + leadingDigits(Tail(s))

RECURSIVE digitsValue(_)
digitsValue(s) ==
    IF s = <<>> THEN 0
    ELSE 10 * digitsValue(SubSeq(s, 1, Len(s) - 1)) + digitValue(s[Len(s)])

(* faulty variant: the sign is skipped, not applied *)
atof_Unsigned(tok) ==
    LET neg == tok # <<>> /\ Head(tok) = "-"
        s1 == IF neg THEN Tail(tok) ELSE tok
        ni == leadingDigits(s1)
        s2 == SubSeq(s1, ni + 1, Len(s1))
        s3 == IF s2 # <<>> /\ Head(s2) = "." THEN Tail(s2) ELSE <<>>
        nf == leadingDigits(s3)
    IN  10 * digitsValue(SubSeq(s1, 1, ni))
            + (IF nf > 0 THEN digitValue(s3[1]) ELSE 0)

(* atof(token), in tenths: an optional sign, digits, an optional point and *)
(* digits; the conversion stops at the first character that does not fit,  *)
(* and is 0 when there is no digit.  Digits after the first decimal are    *)
(* below the resolution of the model.                                      *)
atof(tok) ==
    LET neg == tok # <<>> /\ Head(tok) = "-"
        s1 == IF neg THEN Tail(tok) ELSE tok
        ni == leadingDigits(s1)
        s2 == SubSeq(s1, ni + 1, Len(s1))
        s3 == IF s2 # <<>> /\ Head(s2) = "." THEN Tail(s2) ELSE <<>>
        nf == leadingDigits(s3)
        magnitude == 10 * digitsValue(SubSeq(s1, 1, ni))
                         + (IF nf > 0 THEN digitValue(s3[1]) ELSE 0)
    IN  IF neg THEN -magnitude ELSE magnitude

(* (int)value: truncation towards zero of a value in tenths *)
toInt(value) == IF value >= 0 THEN value \div 10 ELSE -((-value) \div 10)

(* faulty variant: the field index wraps round after the eighth token *)
store_Wrapping(cache, fieldIndex, value) ==
    CASE fieldIndex % 8 = 0 -> [cache EXCEPT !.temp = value]
      [] fieldIndex % 8 = 1 -> [cache EXCEPT !.humid = value]
      [] fieldIndex % 8 = 2 -> [cache EXCEPT !.gas = toInt(value)]
      [] fieldIndex % 8 = 3 -> [cache EXCEPT !.dist = toInt(value)]
      [] fieldIndex % 8 = 4 -> [cache EXCEPT !.state = toInt(value)]
      [] fieldIndex % 8 = 5 -> [cache EXCEPT !.pitch = value]
      [] fieldIndex % 8 = 6 -> [cache EXCEPT !.roll = value]
      [] fieldIndex % 8 = 7 -> [cache EXCEPT !.yaw = value]

(* switch (fieldIndex) *)
store(cache, fieldIndex, value) ==
    CASE fieldIndex = 0 -> [cache EXCEPT !.temp = value]
      [] fieldIndex = 1 -> [cache EXCEPT !.humid = value]
      [] fieldIndex = 2 -> [cache EXCEPT !.gas = toInt(value)]
      [] fieldIndex = 3 -> [cache EXCEPT !.dist = toInt(value)]
      [] fieldIndex = 4 -> [cache EXCEPT !.state = toInt(value)]
      [] fieldIndex = 5 -> [cache EXCEPT !.pitch = value]
      [] fieldIndex = 6 -> [cache EXCEPT !.roll = value]
      [] fieldIndex = 7 -> [cache EXCEPT !.yaw = value]
      [] OTHER -> cache

(* while (token != NULL) *)
RECURSIVE fill(_, _, _)
fill(cache, tokens, fieldIndex) ==
    IF tokens = <<>>
    THEN cache
    ELSE fill(store(cache, fieldIndex, atof(Head(tokens))), Tail(tokens),
              fieldIndex + 1)

(* the whole function, on what the receive buffer holds *)
readThingSpeakData ==
    LET r == readSerial(receivedString, SubSeq(hostOut, consumed + 1, arrived),
                        0)
    IN  /\ consumed' = consumed + r.taken
        /\ IF r.newData
           THEN /\ receivedTSData' = fill(receivedTSData,
                                          strtok(r.receivedString), 0)
                /\ receivedString' = <<>>
           ELSE /\ receivedString' = r.receivedString
                /\ UNCHANGED receivedTSData

-----------------------------------------------------------------------------
(* handleIRRemote() *)

(* faulty variant: the warm-up state is skipped *)
warmUp_Skipped(m) == delay(m, 1000)

(* lines 275-276: Off -> Idle and the warm-up period *)
warmUp(m) == delay(setState(m, STATE_IDLE), 1000)

(* line 277: Idle -> Active *)
activate(m) == setState(m, STATE_ACTIVE)

(* faulty variant: only a running, unalarmed vehicle is switched off *)
turnOff_OnlyActive(m) ==
    IF m.currentState = STATE_ACTIVE THEN setState(m, STATE_OFF) ELSE m

(* line 285 *)
turnOff(m) == setState(m, STATE_OFF)

(* lines 264-267: the decoded code is reported on the serial line *)
received(m, irCode) == Log(m, Ev("ir", irCode))

(* lines 321-327: the request of connectToCloud() *)
connectRequest(m) ==
    Log(lcdPage(m, "Connecting to"), Ev("serial", "CONNECT_CLOUD"))

PressDue ==
    /\ presses <= MaxPresses
    /\ presses <= Len(PressTimes)
    /\ clock >= PressTimes[presses]

(* faulty variant: the body of loop() runs in Off as well *)
AfterHandler_Always(m, on) ==
    /\ pc' = "fast"
    /\ currentTime' = m.clock

(* loop(), lines 106-112: the body is run only while the vehicle is on,   *)
(* and it begins with the feedback of the host if the cloud is connected  *)
AfterHandler(m, on) ==
    IF on
    THEN /\ pc' = IF cloudConnected' THEN "inbound" ELSE "fast"
         /\ currentTime' = m.clock
    ELSE /\ pc' = "delay"
         /\ UNCHANGED currentTime

(* IrReceiver.decode() is false, or it decoded the repeat code *)
IRQuiet ==
    /\ pc = "loop"
    /\ clock < MaxTime
    /\ \E decoded \in IF PressDue THEN BOOLEAN ELSE {FALSE} :
          /\ presses' = IF PressDue THEN presses + 1 ELSE presses
          /\ op' = IF decoded THEN "irRepeat" ELSE "irNone"
    /\ Store(Fresh(M))
    /\ UNCHANGED <<currentData, cloudConnected, lastDHTUpdate,
                   lastUpdateTime, startTime>>
    /\ AfterHandler(M, currentState # STATE_OFF)
    /\ UNCHANGED <<lastSent, inbound>>

(* a button code decoded while Off: up to the end of the warm-up *)
IRTurnOn ==
    /\ pc = "loop"
    /\ clock < MaxTime
    /\ PressDue
    /\ currentState = STATE_OFF
    /\ \E irCode \in IRCodes \ {0} :
          Store(warmUp(beepIR(received(Fresh(M), irCode))))
    /\ presses' = presses + 1
    /\ pc' = "warmup"
    /\ op' = "irOn"
    /\ UNCHANGED <<currentData, cloudConnected, lastDHTUpdate,
                   lastUpdateTime, currentTime, startTime>>
    /\ UNCHANGED <<lastSent, inbound>>

(* the warm-up is over: Active, and the request of connectToCloud() *)
IRActivate ==
    /\ pc = "warmup"
    /\ LET m == connectRequest(activate(M))
       IN  /\ Store(m)
           /\ startTime' = m.clock
    /\ pc' = "connect"
    /\ op' = "irActive"
    /\ UNCHANGED <<currentData, cloudConnected, lastDHTUpdate,
                   lastUpdateTime, currentTime, presses>>
    /\ UNCHANGED <<lastSent, inbound>>

(* faulty variant: the turn-off leaves the cloud-connected flag set *)
IRTurnOff_KeepsFlag ==
    /\ pc = "loop"
    /\ clock < MaxTime
    /\ PressDue
    /\ currentState # STATE_OFF
    /\ \E irCode \in IRCodes \ {0} :
          Store(turnOff(beepIR(received(Fresh(M), irCode))))
    /\ presses' = presses + 1
    /\ pc' = "delay"
    /\ op' = "irOff"
    /\ UNCHANGED <<currentData, cloudConnected, lastDHTUpdate, lastUpdateTime,
                   currentTime, startTime>>
    /\ UNCHANGED <<lastSent, inbound>>

(* faulty variant: only the OFF button switches a running vehicle off *)
IRTurnOff_OffButtonOnly ==
    /\ pc = "loop"
    /\ clock < MaxTime
    /\ PressDue
    /\ currentState # STATE_OFF
    /\ \E irCode \in IRCodes \ {0} :
          IF irCode = IR_BUTTON_OFF
          THEN /\ cloudConnected' = FALSE
               /\ Store(turnOff(beepIR(received(Fresh(M), irCode))))
               /\ pc' = "delay"
               /\ UNCHANGED currentTime
          ELSE LET m == beepIR(received(Fresh(M), irCode))
               IN  /\ Store(m)
                   /\ UNCHANGED cloudConnected
                   /\ AfterHandler(m, TRUE)
    /\ presses' = presses + 1
    /\ op' = "irOff"
    /\ UNCHANGED <<currentData, lastDHTUpdate, lastUpdateTime, startTime>>
    /\ UNCHANGED <<lastSent, inbound>>

(* a button code decoded while not Off *)
IRTurnOff ==
    /\ pc = "loop"
    /\ clock < MaxTime
    /\ PressDue
    /\ currentState # STATE_OFF
    /\ \E irCode \in IRCodes \ {0} :
          /\ cloudConnected' = FALSE
          /\ Store(turnOff(beepIR(received(Fresh(M), irCode))))
    /\ presses' = presses + 1
    /\ pc' = "delay"
    /\ op' = "irOff"
    /\ UNCHANGED <<currentData, lastDHTUpdate, lastUpdateTime, currentTime,
                   startTime>>
    /\ UNCHANGED <<lastSent, inbound>>

-----------------------------------------------------------------------------
(* connectToCloud(): one turn of the while loop per step *)

Available ==
    IF Elapsed(clock, startTime) \in ReplyTimes
    THEN ReplyLines \cup {""}
    ELSE {""}

(* faulty variant: a refusal of the host makes the sketch ask again *)
ConnectPoll_RetryOnFail ==
    /\ pc = "connect"
    /\ Elapsed(clock, startTime) < CLOUD_TIMEOUT
    /\ \E response \in Available :
          IF response = "CLOUD_OK"
          THEN LET m == delay(beepReady(lcdPage(M, "Connected!")), 2000)
               IN  /\ cloudConnected' = TRUE
                   /\ Store(m)
                   /\ AfterHandler(m, TRUE)
                   /\ op' = "cloudOk"
          ELSE IF response = "CLOUD_FAIL"
          THEN /\ cloudConnected' = FALSE
               /\ Store(connectRequest(delay(lcdPage(M, "Connection failed!"),
                                             2000)))
               /\ op' = "cloudFail"
               /\ UNCHANGED <<pc, currentTime>>
          ELSE /\ Store(delay(M, 100))
               /\ op' = IF response = "" THEN "cloudWait" ELSE "cloudOther"
               /\ UNCHANGED <<cloudConnected, pc, currentTime>>
    /\ UNCHANGED <<currentData, lastDHTUpdate, lastUpdateTime, startTime,
                   presses>>
    /\ UNCHANGED <<lastSent, inbound>>

ConnectPoll ==
    /\ pc = "connect"
    /\ Elapsed(clock, startTime) < CLOUD_TIMEOUT
    /\ \E response \in Available :
          IF response = "CLOUD_OK"
          THEN LET m == delay(beepReady(lcdPage(M, "Connected!")), 2000)
               IN  /\ cloudConnected' = TRUE
                   /\ Store(m)
                   /\ AfterHandler(m, TRUE)
                   /\ op' = "cloudOk"
          ELSE IF response = "CLOUD_FAIL"
          THEN LET m == delay(lcdPage(M, "Connection failed!"), 2000)
               IN  /\ cloudConnected' = FALSE
                   /\ Store(m)
                   /\ AfterHandler(m, TRUE)
                   /\ op' = "cloudFail"
          ELSE /\ Store(delay(M, 100))
               /\ op' = IF response = "" THEN "cloudWait" ELSE "cloudOther"
               /\ UNCHANGED <<cloudConnected, pc, currentTime>>
    /\ UNCHANGED <<currentData, lastDHTUpdate, lastUpdateTime, startTime,
                   presses>>
    /\ UNCHANGED <<lastSent, inbound>>

(* faulty variant: after a timeout the request is made again *)
ConnectTimeout_Retries ==
    /\ pc = "connect"
    /\ Elapsed(clock, startTime) >= CLOUD_TIMEOUT
    /\ clock < MaxTime
    /\ LET m == connectRequest(delay(lcdPage(M, "Timeout!"), 2000))
       IN  /\ cloudConnected' = FALSE
           /\ Store(m)
           /\ startTime' = m.clock
    /\ op' = "cloudTimeout"
    /\ UNCHANGED <<currentData, lastDHTUpdate, lastUpdateTime, currentTime,
                   pc, presses>>
    /\ UNCHANGED <<lastSent, inbound>>

ConnectTimeout ==
    /\ pc = "connect"
    /\ Elapsed(clock, startTime) >= CLOUD_TIMEOUT
    /\ LET m == delay(lcdPage(M, "Timeout!"), 2000)
       IN  /\ cloudConnected' = FALSE
           /\ Store(m)
           /\ AfterHandler(m, TRUE)
    /\ op' = "cloudTimeout"
    /\ UNCHANGED <<currentData, lastDHTUpdate, lastUpdateTime, startTime,
                   presses>>
    /\ UNCHANGED <<lastSent, inbound>>

-----------------------------------------------------------------------------
(* loop(), lines 111-114: the feedback of the host.  It writes             *)
(* receivedTSData and its buffer only.  In the timed loop the host sends   *)
(* no record; the records are followed character by character in           *)
(* SpecParse.                                                              *)

LoopInbound ==
    /\ pc = "inbound"
    /\ readThingSpeakData
    /\ pc' = "fast"
    /\ op' = "readThingSpeak"
    /\ UNCHANGED <<currentState, previousState, motor, rgb, lcd, clock, trace,
                   currentData, cloudConnected, lastDHTUpdate, lastUpdateTime,
                   currentTime, startTime, presses, lastSent, hostOut,
                   arrived>>

-----------------------------------------------------------------------------
(* loop(): the fast tick, lines 116-205 *)

sample(data, rawT, rawH, echo, p, r, y) ==
    [data EXCEPT !.temperature = readTemperature(rawT),
                 !.humidity = readHumidity(rawH),
                 !.distance = readDistance(echo),
                 !.pitch = p, !.roll = r, !.yaw = y]

FastTick(Samples) ==
    /\ pc = "fast"
    /\ Elapsed(currentTime, lastDHTUpdate) >= DHT_INTERVAL
    /\ lastDHTUpdate' = currentTime
    /\ \E s \in Samples, y \in Yaws :
          /\ currentData' = sample(currentData, s[1], s[2], s[3], s[4], s[5], y)
          /\ Store(hazardAlert(M, currentData'))
    /\ pc' = "telemetry"
    /\ op' = "fastTick"
    /\ UNCHANGED <<cloudConnected, lastUpdateTime, currentTime, startTime,
                   presses>>
    /\ UNCHANGED <<lastSent, inbound>>

FastSkip ==
    /\ pc = "fast"
    /\ Elapsed(currentTime, lastDHTUpdate) < DHT_INTERVAL
    /\ pc' = "telemetry"
    /\ op' = "fastSkip"
    /\ UNCHANGED <<currentState, previousState, motor, rgb, lcd, clock, trace,
                   currentData, cloudConnected, lastDHTUpdate, lastUpdateTime,
                   currentTime, startTime, presses>>
    /\ UNCHANGED <<lastSent, inbound>>

-----------------------------------------------------------------------------
(* loop(): the telemetry tick, lines 207-229 *)

sendDataToSerial(m, data) ==
    Log(m, Ev("csv", <<data.temperature, data.humidity, data.gasLevel,
                       data.distance, m.currentState, data.pitch, data.roll,
                       data.yaw>>))

restoreColour(m) ==
    IF m.currentState = STATE_ACTIVE THEN rgbGreen(m)
    ELSE IF m.currentState = STATE_ALERT THEN rgbRed(m)
    ELSE m

(* lines 217-228: the record, the blue flash, the colour of the state *)
transmit(m, data) ==
    restoreColour(delay(rgbBlue(sendDataToSerial(m, data)), 200))

(* faulty variant: the record is printed before the state is updated *)
telemetry_SendFirst(m, data) ==
    restoreColour(delay(rgbBlue(updateState(sendDataToSerial(m, data), data)),
                        200))

(* lines 214-228 *)
telemetry(m, data) == transmit(updateState(m, data), data)

TelemetryTick ==
    /\ pc = "telemetry"
    /\ Elapsed(currentTime, lastUpdateTime) >= UPDATE_INTERVAL
    /\ lastUpdateTime' = currentTime
    /\ \E gas \in LoopGas :
          /\ currentData' = [currentData EXCEPT !.gasLevel = gas]
          /\ Store(telemetry(M, currentData'))
          /\ lastSent' = updateState(M, currentData').clock
    /\ pc' = "delay"
    /\ op' = "telemetry"
    /\ UNCHANGED <<cloudConnected, lastDHTUpdate, currentTime, startTime,
                   presses>>
    /\ UNCHANGED inbound

(* faulty variant: the time of the last record is moved on by every        *)
(* iteration, so that the interval never elapses                           *)
TelemetrySkip_Resets ==
    /\ pc = "telemetry"
    /\ Elapsed(currentTime, lastUpdateTime) < UPDATE_INTERVAL
    /\ lastUpdateTime' = currentTime
    /\ pc' = "delay"
    /\ op' = "telemetrySkip"
    /\ UNCHANGED <<currentState, previousState, motor, rgb, lcd, clock, trace,
                   currentData, cloudConnected, lastDHTUpdate,
                   currentTime, startTime, presses>>
    /\ UNCHANGED <<lastSent, inbound>>

TelemetrySkip ==
    /\ pc = "telemetry"
    /\ Elapsed(currentTime, lastUpdateTime) < UPDATE_INTERVAL
    /\ pc' = "delay"
    /\ op' = "telemetrySkip"
    /\ UNCHANGED <<currentState, previousState, motor, rgb, lcd, clock, trace,
                   currentData, cloudConnected, lastDHTUpdate, lastUpdateTime,
                   currentTime, startTime, presses>>
    /\ UNCHANGED <<lastSent, inbound>>

(* line 251: delay(50); the iteration is over and its trace is closed *)
EndLoop ==
    /\ pc = "delay"
    /\ Store(Fresh(delay(M, LOOP_DELAY)))
    /\ pc' = "loop"
    /\ op' = "delay"
    /\ UNCHANGED <<currentData, cloudConnected, lastDHTUpdate, lastUpdateTime,
                   currentTime, startTime, presses>>
    /\ UNCHANGED <<lastSent, inbound>>

LoopFastTick == FastTick(LoopSamples)

Next ==
    \/ IRQuiet
    \/ IRTurnOn
    \/ IRActivate
    \/ IRTurnOff
    \/ ConnectPoll
    \/ ConnectTimeout
    \/ LoopInbound
    \/ LoopFastTick
    \/ FastSkip
    \/ TelemetryTick
    \/ TelemetrySkip
    \/ EndLoop

Spec == Init /\ [][Next]_vars

-----------------------------------------------------------------------------
(* The loop of a vehicle that stays on.  It has been turned on at boot,    *)
(* the host has not answered and the handshake has timed out; no further   *)
(* button is pressed.  The runtime calls loop() again whenever it returns  *)
(* and every statement of it terminates, so a step that can be taken is    *)
(* taken; the clock of the model ends at MaxTime.                          *)

TimedOut ==
    LET asked == connectRequest(activate(warmUp(beepIR(
                     received(Fresh(setup(PowerOn)), IR_BUTTON_ON)))))
    IN  [start |-> asked.clock,
         m |-> delay(lcdPage(delay(asked, CLOUD_TIMEOUT), "Timeout!"), 2000)]

LiveInit ==
    /\ Load(TimedOut.m)
    /\ currentData = NoData
    /\ cloudConnected = FALSE
    /\ lastDHTUpdate = 0
    /\ lastUpdateTime = 0
    /\ currentTime = TimedOut.m.clock
    /\ startTime = TimedOut.start
    /\ pc = "fast"
    /\ op = "cloudTimeout"
    /\ presses = MaxPresses + 1
    /\ lastSent = -1
    /\ NoInbound

LiveNext ==
    \/ IRQuiet
    \/ LoopFastTick
    \/ FastSkip
    \/ TelemetryTick
    \/ TelemetrySkip
    \/ EndLoop

SpecLive == LiveInit /\ [][LiveNext]_vars /\ WF_vars(LiveNext)

-----------------------------------------------------------------------------
(* One fast tick over the whole range of readings.  The sketch has been    *)
(* turned on; the telemetry tick of the iteration that began at TickTime   *)
(* has read some gas level and updated the state; the iteration has ended  *)
(* and the next one finds the fast tick due.                               *)

TickTime == 17000

TurnedOn == activate(warmUp(beepIR(Fresh(setup(PowerOn)))))

TickInit ==
    \E gas \in GasLevels :
        LET data == [NoData EXCEPT !.gasLevel = gas]
            before == [TurnedOn EXCEPT !.clock = TickTime]
            m == Fresh(delay(telemetry(before, data), LOOP_DELAY))
        IN  /\ Load(m)
            /\ currentData = data
            /\ cloudConnected = FALSE
            /\ lastDHTUpdate = m.clock - DHT_INTERVAL
            /\ lastUpdateTime = TickTime
            /\ currentTime = m.clock
            /\ startTime = 0
            /\ pc = "fast"
            /\ op = "irNone"
            /\ presses = 2
            /\ lastSent = updateState(before, data).clock
            /\ NoInbound

AnyFastTick == FastTick(Temps \X Humids \X Echoes \X Angles \X Angles)

TickNext == AnyFastTick

SpecTick == TickInit /\ [][TickNext]_vars

-----------------------------------------------------------------------------
(* The state machine driven call by call: the calls the sketch makes of    *)
(* setState() and updateState(), by a caller that makes them in any order, *)
(* and the call of the validity check that updateState() has disabled.     *)

(* handleIRRemote(), lines 275-276 *)
CallWarmUp ==
    /\ clock < MaxTime
    /\ currentState = STATE_OFF
    /\ Store(warmUp(Fresh(M)))
    /\ op' = "setState"
    /\ UNCHANGED <<currentData, cloudConnected, lastDHTUpdate, lastUpdateTime,
                   currentTime, startTime, pc, presses>>
    /\ UNCHANGED <<lastSent, inbound>>

(* handleIRRemote(), line 277 *)
CallActivate ==
    /\ clock < MaxTime
    /\ currentState = STATE_IDLE
    /\ Store(activate(Fresh(M)))
    /\ op' = "setState"
    /\ UNCHANGED <<currentData, cloudConnected, lastDHTUpdate, lastUpdateTime,
                   currentTime, startTime, pc, presses>>
    /\ UNCHANGED <<lastSent, inbound>>

(* handleIRRemote(), lines 283-285: a button code decoded while not Off *)
CallRemoteOff ==
    /\ clock < MaxTime
    /\ currentState # STATE_OFF
    /\ \E irCode \in IRCodes \ {0} :
          /\ cloudConnected' = FALSE
          /\ Store(turnOff(beepIR(Fresh(M))))
    /\ op' = "irOff"
    /\ UNCHANGED <<currentData, lastDHTUpdate, lastUpdateTime, currentTime,
                   startTime, pc, presses>>
    /\ UNCHANGED <<lastSent, inbound>>

(* loop(), lines 212-215 *)
CallUpdateState ==
    /\ clock < MaxTime
    /\ \E gas \in GasLevels :
          /\ currentData' = [currentData EXCEPT !.gasLevel = gas]
          /\ Store(updateState(Fresh(M), currentData'))
    /\ op' = "updateState"
    /\ UNCHANGED <<cloudConnected, lastDHTUpdate, lastUpdateTime, currentTime,
                   startTime, pc, presses>>
    /\ UNCHANGED <<lastSent, inbound>>

(* setState(STATE_ERROR), the call of the check disabled in updateState() *)
CallSetError ==
    /\ clock < MaxTime
    /\ currentState # STATE_OFF
    /\ Store(setState(Fresh(M), STATE_ERROR))
    /\ op' = "setState"
    /\ UNCHANGED <<currentData, cloudConnected, lastDHTUpdate, lastUpdateTime,
                   currentTime, startTime, pc, presses>>
    /\ UNCHANGED <<lastSent, inbound>>

CallNext ==
    \/ CallWarmUp
    \/ CallActivate
    \/ CallRemoteOff
    \/ CallUpdateState
    \/ CallSetError

SpecCalls == Init /\ [][CallNext]_vars

-----------------------------------------------------------------------------
(* The handshake alone: a button has been pressed in Off after some idle   *)
(* iterations of loop(), the vehicle has warmed up and connectToCloud()    *)
(* has sent its request.  The processor keeps running the while loop, so   *)
(* a turn that finds no token and the timeout are taken when they can be;  *)
(* whether and when the host answers is up to the host.                    *)

MaxIdle == 3

ConnectInit ==
    \E idle \in 0..MaxIdle :
        LET boot == Fresh(delay(setup(PowerOn), idle * LOOP_DELAY))
            m == connectRequest(activate(warmUp(beepIR(boot))))
        IN  /\ Load(m)
            /\ currentData = NoData
            /\ cloudConnected = FALSE
            /\ lastDHTUpdate = 0
            /\ lastUpdateTime = 0
            /\ currentTime = 0
            /\ startTime = m.clock
            /\ pc = "connect"
            /\ op = "irActive"
            /\ presses = 2
            /\ lastSent = -1
            /\ NoInbound

ConnectNext ==
    \/ ConnectPoll
    \/ ConnectTimeout

SpecConnect ==
    /\ ConnectInit
    /\ [][ConnectNext]_vars
    /\ WF_vars(ConnectPoll /\ op' \in {"cloudWait", "cloudOther"})
    /\ WF_vars(ConnectTimeout)

-----------------------------------------------------------------------------
(* The feedback of the host, read by a vehicle that is on and connected.   *)
(* The host writes two lines: a whole record, then a line that may be      *)
(* short, long or no record at all.  The characters reach the receive      *)
(* buffer in pieces of any size, and loop() calls readThingSpeakData() at  *)
(* any moment in between.  (The host paces its lines, so the receive       *)
(* buffer never overflows.)                                                *)

Records ==
    { <<235, 550, 120, 150, 2, 12, -5, 100>>,
      <<-9990, -9990, 1023, -1, 3, -900, 451, 3599>> }

(* the host's framing of a record: the fields as sendDataToSerial() prints *)
(* them, separated by '|', ended by a line feed                            *)
pipes(line) ==
    LET kept == SelectSeq(line, LAMBDA c : c # "\r")
    IN  [i \in 1..Len(kept) |-> IF kept[i] = "," THEN "|" ELSE kept[i]]

fieldText(i, v) == IF i \in {3, 4, 5} THEN printInt(v) ELSE printFloat(v)

RECURSIVE pipeJoin(_, _)
pipeJoin(values, i) ==
    IF i > Len(values)
    THEN <<>>
    ELSE (IF i > 1 THEN <<"|">> ELSE <<>>)
             \o fieldText(i, values[i]) \o pipeJoin(values, i + 1)

hostLine(values) == pipeJoin(values, 1) \o <<"\n">>

(* the second line, with the values its tokens stand for: the first k      *)
(* fields of a record, a record followed by two more tokens, a line of the *)
(* handshake, a line with stray characters                                 *)
InboundLines ==
    { [text |-> hostLine(SubSeq(r, 1, k)), values |-> SubSeq(r, 1, k)] :
        r \in Records, k \in 0..8 }
    \cup { [text |-> hostLine(r \o <<77, 8>>), values |-> r \o <<77, 8>>] :
             r \in Records }
    \cup { [text |-> <<"C", "L", "O", "U", "D", "_", "O", "K", "\n">>,
            values |-> <<>>],
           [text |-> <<"t", "=", "4", "2", ".", "5", "|", "h", "=", "6", "\n">>,
            values |-> <<425, 60>>] }

(* connectToCloud() has returned on CLOUD_OK *)
Connected ==
    delay(beepReady(lcdPage(connectRequest(TurnedOn), "Connected!")), 2000)

ParseInit ==
    /\ Load(Fresh(Connected))
    /\ currentData = NoData
    /\ cloudConnected = TRUE
    /\ lastDHTUpdate = 0
    /\ lastUpdateTime = 0
    /\ currentTime = Connected.clock
    /\ startTime = Connected.clock - 2150
    /\ pc = "fast"
    /\ op = "cloudOk"
    /\ presses = 2
    /\ lastSent = -1
    /\ \E first \in Records, second \in InboundLines :
          hostOut = pipes(csvLine(first)) \o second.text
    /\ arrived = 0
    /\ consumed = 0
    /\ receivedString = <<>>
    /\ receivedTSData = NoRecord

(* more characters of the host reach the receive buffer *)
Arrive ==
    /\ arrived < Len(hostOut)
    /\ \E n \in (arrived + 1)..Len(hostOut) : arrived' = n
    /\ op' = "arrive"
    /\ UNCHANGED <<currentState, previousState, motor, rgb, lcd, clock, trace,
                   currentData, cloudConnected, lastDHTUpdate, lastUpdateTime,
                   currentTime, startTime, pc, presses, lastSent, hostOut,
                   consumed, receivedString, receivedTSData>>

(* faulty variant: the state of the received record is taken over *)
ReadInbound_Applied ==
    /\ currentState # STATE_OFF
    /\ cloudConnected
    /\ readThingSpeakData
    /\ Store(setState(M, receivedTSData'.state))
    /\ op' = "readThingSpeak"
    /\ UNCHANGED <<currentData, cloudConnected, lastDHTUpdate, lastUpdateTime,
                   currentTime, startTime, pc, presses, lastSent, hostOut,
                   arrived>>

(* loop(), lines 106-114: if (cloudConnected) readThingSpeakData(); *)
ReadInbound ==
    /\ currentState # STATE_OFF
    /\ cloudConnected
    /\ readThingSpeakData
    /\ op' = "readThingSpeak"
    /\ UNCHANGED <<currentState, previousState, motor, rgb, lcd, clock, trace,
                   currentData, cloudConnected, lastDHTUpdate, lastUpdateTime,
                   currentTime, startTime, pc, presses, lastSent, hostOut,
                   arrived>>

ParseNext ==
    \/ Arrive
    \/ ReadInbound

SpecParse == ParseInit /\ [][ParseNext]_vars

-----------------------------------------------------------------------------
(* Reading the trace *)

EventsOf(tr, kind) == SelectSeq(tr, LAMBDA e : e[1] = kind)

HazardPages ==
    {"FIRE DETECTED!", "BLIZZARD!", "HURRICANE!", "GAS DETECTED!",
     "OBSTACLE!", "TILT ALERT!"}

(* the hazards announced on the display by the running handler *)
Reported(tr) ==
    SelectSeq(tr, LAMBDA e : e[1] = "lcd" /\ e[2] \in HazardPages)

Announces(page) == Reported(trace) = <<Ev("lcd", page)>>

-----------------------------------------------------------------------------
(* C1: a fast tick announces exactly the first condition that holds in the *)
(* order Fire (temperature >= 30), Blizzard (temperature <= 20),           *)
(* Hurricane (99 <= humidity <= 120), Gas (gas >= 460), Obstacle           *)
(* (0 < distance < 5), Tilt (|pitch| > 45 or |roll| > 45), and nothing     *)
(* when none holds; it performs at most one advisory actuation (one        *)
(* buzzer pattern).                                                        *)
C1_FirstMatchInFixedOrder ==
    LET d == currentData
        tilted == d.pitch > 450 \/ d.pitch < -450 \/ d.roll > 450
                  \/ d.roll < -450
        first == IF d.temperature >= 300 THEN <<"FIRE DETECTED!">>
                 ELSE IF d.temperature <= 200 THEN <<"BLIZZARD!">>
                 ELSE IF d.humidity >= 990 /\ d.humidity <= 1200
                 THEN <<"HURRICANE!">>
                 ELSE IF d.gasLevel >= 460 THEN <<"GAS DETECTED!">>
                 ELSE IF d.distance > 0 /\ d.distance < 5
                 THEN <<"OBSTACLE!">>
                 ELSE IF tilted THEN <<"TILT ALERT!">>
                 ELSE <<>>
    IN  op = "fastTick" =>
            /\ Reported(trace) = [i \in 1..Len(first) |-> Ev("lcd", first[i])]
            /\ Len(EventsOf(trace, "beep")) = Len(first)

(* temperature 35, humidity 110: Fire, although Hurricane holds as well *)
C1_Witness ==
    /\ op = "fastTick"
    /\ currentData.temperature = 350
    /\ currentData.humidity = 1100
    /\ Announces("FIRE DETECTED!")

(* C2 as stated: with temperature in [20, 30) and humidity outside         *)
(* [99, 120], Gas is announced at gasLevel 460 and not at 459.             *)
C2_Original ==
    (/\ op = "fastTick"
     /\ currentData.temperature >= 200
     /\ currentData.temperature < 300
     /\ ~(currentData.humidity >= 990 /\ currentData.humidity <= 1200))
    => /\ currentData.gasLevel = 460 => Announces("GAS DETECTED!")
       /\ currentData.gasLevel = 459 => ~Announces("GAS DETECTED!")

(* C2, amended: with temperature strictly between 20 and 30 and humidity   *)
(* outside [99, 120], Gas is announced at gasLevel 460 and not at 459.     *)
C2_GasBoundary ==
    (/\ op = "fastTick"
     /\ currentData.temperature > 200
     /\ currentData.temperature < 300
     /\ ~(currentData.humidity >= 990 /\ currentData.humidity <= 1200))
    => /\ currentData.gasLevel = 460 => Announces("GAS DETECTED!")
       /\ currentData.gasLevel = 459 => ~Announces("GAS DETECTED!")

C2_Witness ==
    /\ op = "fastTick"
    /\ currentData.temperature = 201
    /\ currentData.humidity = 1201
    /\ currentData.gasLevel = 460
    /\ Announces("GAS DETECTED!")

(* C3: every sample with temperature <= 20 is announced as Blizzard,       *)
(* whatever the other fields are, the -999 of a failed probe included.     *)
C3_Blizzard ==
    (op = "fastTick" /\ currentData.temperature <= 200)
    => Announces("BLIZZARD!")

C3_Witness ==
    /\ op = "fastTick"
    /\ currentData.temperature = -9990
    /\ currentData.gasLevel >= 460
    /\ Announces("BLIZZARD!")

(* C4: when neither Fire, Blizzard, Hurricane nor Gas holds, Obstacle is   *)
(* announced for the distances 1..4; it is never announced for distance 0  *)
(* nor for the -1 of readDistance.                                         *)
C4_Obstacle ==
    op = "fastTick" =>
        /\ (/\ currentData.temperature > 200
            /\ currentData.temperature < 300
            /\ ~(currentData.humidity >= 990 /\ currentData.humidity <= 1200)
            /\ currentData.gasLevel < 460
            /\ currentData.distance \in 1..4) => Announces("OBSTACLE!")
        /\ currentData.distance \in {0, -1} => ~Announces("OBSTACLE!")

C4_Witness ==
    /\ op = "fastTick"
    /\ currentData.distance = 4
    /\ Announces("OBSTACLE!")

(* C5: a button code decoded in Off moves the state to Idle and, when the  *)
(* warm-up is over, to Active: two transitions in that order, each with    *)
(* its own notification followed by its own motor and indicator actions.   *)
(* Nothing else happens in between: no sensor is read, no record emitted,  *)
(* no hazard announced; the state is Active when the handshake starts and  *)
(* stays Active until it is over.                                          *)
C5_TwoStepTurnOn ==
    [][/\ (currentState = STATE_OFF /\ op' = "irOn") =>
            /\ currentState' = STATE_IDLE
            /\ previousState' = STATE_OFF
            /\ pc' = "warmup"
            /\ SelectSeq(trace', LAMBDA e : e[1] \in {"changed", "motor", "rgb"})
                 = << <<"changed", STATE_OFF, STATE_IDLE>>,
                      Ev("motor", "on"), Ev("rgb", "Purple") >>
       /\ pc = "warmup" =>
            /\ currentState' = STATE_ACTIVE
            /\ previousState' = STATE_IDLE
            /\ SelectSeq(trace', LAMBDA e : e[1] \in {"changed", "motor", "rgb"})
                 = << <<"changed", STATE_OFF, STATE_IDLE>>,
                      Ev("motor", "on"), Ev("rgb", "Purple"),
                      <<"changed", STATE_IDLE, STATE_ACTIVE>>,
                      Ev("motor", "on"), Ev("rgb", "Green") >>
       /\ pc = "connect" =>
            /\ currentState' = STATE_ACTIVE
            /\ previousState' = STATE_IDLE
            /\ Len(EventsOf(trace', "changed")) = 2
       /\ (pc \in {"warmup", "connect"} \/ op' = "irOn") =>
            /\ EventsOf(trace', "csv") = <<>>
            /\ Reported(trace') = <<>>
            /\ currentData' = currentData
            /\ lastDHTUpdate' = lastDHTUpdate
            /\ lastUpdateTime' = lastUpdateTime
      ]_vars

C5_Witness ==
    /\ op = "cloudTimeout"
    /\ pc = "fast"
    /\ currentState = STATE_ACTIVE
    /\ previousState = STATE_IDLE
    /\ EventsOf(trace, "changed")
         = << <<"changed", STATE_OFF, STATE_IDLE>>,
              <<"changed", STATE_IDLE, STATE_ACTIVE>> >>

(* C6: a button code decoded in Idle, Active, Alert or Error sets the      *)
(* state to Off, whatever the sample and the gas level are.                *)
C6_TurnOffFromAnyState ==
    [][op' = "irOff" => (currentState # STATE_OFF /\ currentState' = STATE_OFF)
      ]_vars

C6_Witness ==
    /\ op = "irOff"
    /\ previousState = STATE_ALERT
    /\ currentState = STATE_OFF
    /\ currentData.gasLevel >= 460

(* C7: updateState called in Idle, Active or Alert leaves the state Alert  *)
(* when gasLevel >= 460 and Active otherwise; in particular a cleared      *)
(* hazard takes Alert to Active, never to Idle.                            *)
C7_GasDrivesAlert ==
    [][(/\ op' = "updateState"
        /\ currentState \in {STATE_IDLE, STATE_ACTIVE, STATE_ALERT}) =>
          currentState' = IF currentData'.gasLevel >= 460
                          THEN STATE_ALERT
                          ELSE STATE_ACTIVE
      ]_vars

C7_Witness ==
    /\ op = "updateState"
    /\ previousState = STATE_ALERT
    /\ currentState = STATE_ACTIVE
    /\ EventsOf(trace, "changed")
         = << <<"changed", STATE_ALERT, STATE_ACTIVE>> >>

(* C8: a call of setState or updateState that leaves the state what it was *)
(* changes neither the previous state nor an actuator nor the clock, and   *)
(* invokes nothing: no actuator call and no notification are in its trace. *)
C8_SelfTransitionNoOp ==
    [][(/\ op' \in {"setState", "updateState"}
        /\ currentState' = currentState) =>
          /\ previousState' = previousState
          /\ motor' = motor
          /\ rgb' = rgb
          /\ lcd' = lcd
          /\ clock' = clock
          /\ trace' = <<>>
      ]_vars

C8_Witness ==
    /\ op = "updateState"
    /\ currentState = STATE_ALERT
    /\ currentData.gasLevel >= 460
    /\ trace = <<>>

-----------------------------------------------------------------------------
(* The actions the claims bind to a state *)

MotorOf(state) ==
    IF state \in {STATE_IDLE, STATE_ACTIVE, STATE_ALERT} THEN "on" ELSE "off"

ColourOf(state) ==
    CASE state = STATE_OFF -> "Off"
      [] state = STATE_IDLE -> "Purple"
      [] state = STATE_ACTIVE -> "Green"
      [] state = STATE_ALERT -> "Red"
      [] state = STATE_ERROR -> "Yellow"

PageOf(state) ==
    CASE state = STATE_OFF -> "UAV OFF"
      [] state = STATE_IDLE -> "UAV ACTIVE"
      [] state = STATE_ACTIVE -> "none"
      [] state = STATE_ALERT -> "!!! ALERT !!!"
      [] state = STATE_ERROR -> "SENSOR ERROR"

(* the pages written to the display, the backlight calls left out *)
Pages(tr) == SelectSeq(tr, LAMBDA e : e[1] = "lcd" /\ e[2] # "backlight")

HazardBeeps(tr) == SelectSeq(tr, LAMBDA e : e[1] = "beep" /\ e[2] = 3)

(* one notification (old, new), one motor call, one colour, and the hazard *)
(* pattern exactly when Alert is entered                                   *)
NotifiedAndActuated(old, new, tr) ==
    /\ EventsOf(tr, "changed") = << <<"changed", old, new>> >>
    /\ EventsOf(tr, "motor") = << Ev("motor", MotorOf(new)) >>
    /\ EventsOf(tr, "rgb") = << Ev("rgb", ColourOf(new)) >>
    /\ Len(HazardBeeps(tr)) = IF new = STATE_ALERT THEN 1 ELSE 0

(* C9 as stated: every transition to a different state produces one        *)
(* notification (old, new) and invokes once the motor, the indicator       *)
(* colour and the display page of the new state, and the hazard pattern    *)
(* for Alert.                                                              *)
C9_Original ==
    [][currentState' # currentState =>
          /\ NotifiedAndActuated(currentState, currentState', trace')
          /\ Len(Pages(trace')) = 1
      ]_vars

(* C9, amended: every transition to a different state produces one         *)
(* notification (old, new) and invokes once the motor and the indicator    *)
(* colour of the new state, the hazard pattern for Alert, and the display  *)
(* page of the new state when that is Off, Idle, Alert or Error; entering  *)
(* Active only switches the backlight on and leaves the displayed page.    *)
C9_OneNotificationOneActuation ==
    [][currentState' # currentState =>
          /\ NotifiedAndActuated(currentState, currentState', trace')
          /\ previousState' = currentState
          /\ motor' = (MotorOf(currentState') = "on")
          /\ rgb' = ColourOf(currentState')
          /\ IF currentState' = STATE_ACTIVE
             THEN /\ Pages(trace') = <<>>
                  /\ EventsOf(trace', "lcd") = << Ev("lcd", "backlight") >>
                  /\ lcd' = lcd
             ELSE /\ Pages(trace') = << Ev("lcd", PageOf(currentState')) >>
                  /\ lcd' = PageOf(currentState')
      ]_vars

C9_Witness ==
    /\ op = "updateState"
    /\ currentState = STATE_ALERT
    /\ previousState = STATE_ACTIVE
    /\ Len(HazardBeeps(trace)) = 1
    /\ lcd = "!!! ALERT !!!"

(* C10: only a button of the remote takes the state into Off or out of     *)
(* Off: no fast tick, telemetry tick or other step of loop() does, so a    *)
(* vehicle that is Off stays Off whatever the sample is and whichever      *)
(* ticks are due.                                                          *)
C10_OffOnlyByRemote ==
    [][op' \notin {"irOn", "irOff"} =>
          ((currentState' = STATE_OFF) <=> (currentState = STATE_OFF))
      ]_vars

C10_Witness ==
    /\ op = "irNone"
    /\ pc = "delay"
    /\ currentState = STATE_OFF
    /\ currentData.gasLevel >= 460
    /\ Elapsed(clock, lastDHTUpdate) >= DHT_INTERVAL
    /\ Elapsed(clock, lastUpdateTime) >= UPDATE_INTERVAL

-----------------------------------------------------------------------------
(* C11: the sketch never reaches Error: whatever buttons are pressed,      *)
(* whatever time passes and whatever the sensors return, the -999 of a     *)
(* failed temperature and humidity probe included, currentState is never   *)
(* STATE_ERROR.                                                            *)
C11_ErrorUnreachable == currentState # STATE_ERROR

(* a telemetry tick has updated the state on a sample whose temperature    *)
(* and humidity are both -999                                              *)
C11_Witness ==
    /\ op = "telemetry"
    /\ currentData.temperature = DHT_ERROR
    /\ currentData.humidity = DHT_ERROR
    /\ currentState \in {STATE_ACTIVE, STATE_ALERT}

(* C12: updateState called in Error leaves the state Error for every       *)
(* sample, those with gasLevel >= 460 included.                            *)
C12_NoRecoveryFromError ==
    [][(op' = "updateState" /\ currentState = STATE_ERROR) =>
          currentState' = STATE_ERROR
      ]_vars

(* C13: when the fast tick of an iteration of loop() has announced a       *)
(* hazard, the indicator shows the colour of the current state (green for  *)
(* Active, red for Alert) once the body of the iteration is over.          *)
C13_IndicatorRestored ==
    (pc = "delay" /\ Reported(trace) # <<>>) => rgb = ColourOf(currentState)

(* C14 as stated: whatever the state is, Off included, an iteration of     *)
(* loop() that finds 2000 ms or more elapsed since the last evaluation of  *)
(* the hazards evaluates them; so when its body is over less than 2000 ms  *)
(* have elapsed since the last evaluation.  (Stated for the iterations     *)
(* that follow a first evaluation.)                                        *)
C14_Original ==
    (pc = "delay" /\ lastDHTUpdate > 0) =>
        Elapsed(IF currentState = STATE_OFF THEN clock ELSE currentTime,
                lastDHTUpdate) < DHT_INTERVAL

(* C14, amended: in every state other than Off an iteration of loop() that *)
(* finds 2000 ms or more elapsed since the last evaluation of the hazards  *)
(* evaluates them; in Off the hazards are never evaluated.                 *)
C14_EvaluatedWhenOn ==
    /\ (pc = "delay" /\ currentState # STATE_OFF) =>
            Elapsed(currentTime, lastDHTUpdate) < DHT_INTERVAL
    /\ op = "fastTick" => currentState # STATE_OFF

(* an iteration in Alert whose fast tick was due and announced a hazard *)
C14_Witness ==
    /\ pc = "delay"
    /\ currentState = STATE_ALERT
    /\ lastDHTUpdate = currentTime
    /\ Reported(trace) # <<>>

(* C15: a fast tick leaves currentState and previousState as they were,    *)
(* whichever of Fire, Blizzard, Hurricane, Gas, Obstacle, Tilt or nothing  *)
(* it announces; the state changes only in the remote-control handler and  *)
(* in the telemetry tick, where updateState makes it Alert when the gas    *)
(* level is 460 or more and Active otherwise.                              *)
C15_HazardTickKeepsState ==
    [][/\ op' = "fastTick" =>
            /\ currentState' = currentState
            /\ previousState' = previousState
            /\ EventsOf(trace', "changed") = EventsOf(trace, "changed")
       /\ currentState' # currentState =>
            /\ op' \in {"irOn", "irActive", "irOff", "telemetry"}
            /\ op' = "telemetry" =>
                  currentState' = IF currentData'.gasLevel >= 460
                                  THEN STATE_ALERT
                                  ELSE STATE_ACTIVE
      ]_vars

(* the vehicle on its side, Active before and after the tick *)
C15_Witness ==
    /\ op = "fastTick"
    /\ Announces("TILT ALERT!")
    /\ currentState = STATE_ACTIVE
    /\ previousState = STATE_IDLE

(* C16: a record is printed only when 15000 ms or more of millis() have    *)
(* elapsed since the previous record was printed: two successive records   *)
(* are at least UPDATE_INTERVAL apart, also across an off/on toggle.       *)
C16_RecordsOneIntervalApart ==
    [][(op' = "telemetry" /\ lastSent >= 0) =>
          Elapsed(lastSent', lastSent) >= UPDATE_INTERVAL
      ]_vars

-----------------------------------------------------------------------------
(* The cache as a record of the eight values, and the cache after the      *)
(* first fields have been overwritten by the values given.                 *)

asRecord(v) ==
    [temp |-> v[1], humid |-> v[2], gas |-> v[3], dist |-> v[4],
     state |-> v[5], pitch |-> v[6], roll |-> v[7], yaw |-> v[8]]

overlay(cache, values) ==
    LET pick(i, old) == IF i <= Len(values) THEN values[i] ELSE old
    IN  [temp |-> pick(1, cache.temp), humid |-> pick(2, cache.humid),
         gas |-> pick(3, cache.gas), dist |-> pick(4, cache.dist),
         state |-> pick(5, cache.state), pitch |-> pick(6, cache.pitch),
         roll |-> pick(7, cache.roll), yaw |-> pick(8, cache.yaw)]

(* C17: round trip.  When the line that sendDataToSerial prints for a      *)
(* record of 8 values, with '|' for ',', has been read by                  *)
(* readThingSpeakData, the cache holds the same 8 values in the same       *)
(* positions.                                                              *)
C17_RoundTrip ==
    \A rec \in Records :
        LET line == pipes(csvLine(rec))
        IN  (/\ Len(hostOut) >= Len(line)
             /\ SubSeq(hostOut, 1, Len(line)) = line
             /\ consumed = Len(line)) => receivedTSData = asRecord(rec)

(* the record of the failed probe, -999.0|-999.0|1023|-1|3|-90.0|45.1|359.9 *)
C17_Witness ==
    /\ op = "readThingSpeak"
    /\ consumed = Len(pipes(csvLine(<<-9990, -9990, 1023, -1, 3, -900, 451, 3599>>)))
    /\ receivedString = <<>>
    /\ receivedTSData.temp = -9990
    /\ receivedTSData.dist = -1
    /\ receivedTSData.yaw = 3599

(* C18: once a whole record and then a second line have been read, the     *)
(* cache holds the values of the second line's first 8 tokens in its first *)
(* fields and the values of the record in the others: a line of k < 8      *)
(* tokens overwrites the first k fields only, tokens after the eighth are  *)
(* ignored, and a line without an accepted character changes nothing.      *)
C18_ShortAndLongRecords ==
    consumed = Len(hostOut) =>
        \A first \in Records, second \in InboundLines :
            hostOut = pipes(csvLine(first)) \o second.text =>
                receivedTSData = overlay(asRecord(first), second.values)

(* three tokens after a whole record *)
C18_Witness ==
    /\ op = "readThingSpeak"
    /\ consumed = Len(hostOut)
    /\ hostOut = pipes(csvLine(<<235, 550, 120, 150, 2, 12, -5, 100>>))
                     \o hostLine(<<-9990, -9990, 1023>>)
    /\ receivedTSData.gas = 1023
    /\ receivedTSData.dist = 150

(* C19: a call of readThingSpeakData, whatever the line is, changes the    *)
(* cache, the buffer and the position in the serial input only: the state, *)
(* the previous state, the sample, the cloud flag, the actuators and the   *)
(* clock are what they were and nothing is actuated or notified.           *)
C19_InboundIsReadOnly ==
    [][op' = "readThingSpeak" =>
          UNCHANGED <<currentState, previousState, currentData,
                      cloudConnected, motor, rgb, lcd, clock, trace,
                      lastDHTUpdate, lastUpdateTime, lastSent>>
      ]_vars

(* the record of an Alert has been read by a vehicle that stays Active *)
C19_Witness ==
    /\ op = "readThingSpeak"
    /\ receivedTSData.state = STATE_ALERT
    /\ receivedTSData.gas = 1023
    /\ currentState = STATE_ACTIVE
    /\ cloudConnected

(* C20: connectToCloud always returns, and loop() goes on with its body.   *)
(* A turn of its loop that reads no line, or a line other than CLOUD_OK    *)
(* and CLOUD_FAIL, does not end the wait; when 5000 ms have elapsed        *)
(* without one of the two it ends with cloudConnected = false; it ends     *)
(* with cloudConnected = true on CLOUD_OK only.                            *)
C20_HandshakeTerminates ==
    /\ (pc = "connect") ~> (pc \in {"inbound", "fast"})
    /\ [][pc = "connect" =>
            /\ op' \in {"cloudWait", "cloudOther"} =>
                  /\ pc' = "connect"
                  /\ cloudConnected' = cloudConnected
            /\ Elapsed(clock, startTime) >= CLOUD_TIMEOUT =>
                  op' = "cloudTimeout"
            /\ op' = "cloudTimeout" =>
                  /\ Elapsed(clock, startTime) >= CLOUD_TIMEOUT
                  /\ pc' = "fast"
                  /\ ~cloudConnected'
            /\ op' \in {"cloudOk", "cloudFail"} =>
                  /\ pc' = IF op' = "cloudOk" THEN "inbound" ELSE "fast"
                  /\ cloudConnected' = (op' = "cloudOk")
       ]_vars

(* the wait has run out after the whole 5000 ms *)
C20_Witness ==
    /\ op = "cloudTimeout"
    /\ pc = "fast"
    /\ ~cloudConnected
    /\ lcd = "Timeout!"
    /\ Elapsed(clock, startTime) = CLOUD_TIMEOUT + 2000

-----------------------------------------------------------------------------
(* the requests CONNECT_CLOUD written to the host in an iteration *)
Requests(tr) == EventsOf(tr, "serial")

(* the step writes a request to the host *)
Requested ==
    /\ Requests(trace') # <<>>
    /\ Requests(trace') # Requests(trace)

(* C21: the handshake with the host is attempted once for every turn-on.   *)
(* A request CONNECT_CLOUD is written only by the toggle-on sequence, as   *)
(* the step that follows the warm-up of a vehicle that was Off; every      *)
(* warm-up is followed by one; the warm-up is entered from Off by a        *)
(* decoded button only; and no iteration writes two requests, so that      *)
(* after a timeout or a CLOUD_FAIL none is written until the vehicle has   *)
(* been Off and is turned on again.                                        *)
C21_HandshakeOncePerTurnOn ==
    [][/\ Requested =>
             /\ pc = "warmup"
             /\ op = "irOn"
             /\ op' = "irActive"
             /\ pc' = "connect"
             /\ currentState = STATE_IDLE
             /\ currentState' = STATE_ACTIVE
       /\ pc = "warmup" => Requested
       /\ pc' = "warmup" =>
             /\ currentState = STATE_OFF
             /\ op' = "irOn"
       /\ op \in {"cloudTimeout", "cloudFail"} => pc # "connect"
       /\ Len(Requests(trace')) <= 1
      ]_vars

(* a handshake has timed out and the vehicle has run on to a telemetry     *)
(* tick, unconnected, without another request                              *)
C21_Witness ==
    /\ op = "telemetry"
    /\ lcd = "Timeout!"
    /\ ~cloudConnected
    /\ currentState = STATE_ACTIVE
    /\ Requests(trace) = <<>>
    /\ Elapsed(clock, startTime) > CLOUD_TIMEOUT + UPDATE_INTERVAL

-----------------------------------------------------------------------------
(* the button codes reported by the handler in an iteration *)
Decoded(tr) == EventsOf(tr, "ir")

-----------------------------------------------------------------------------
(* the start of the iteration whose telemetry tick read the gas level that *)
(* currentData holds; -1 while it is still the value of the constructor    *)
GasReadAt == IF lastSent < 0 THEN -1 ELSE lastUpdateTime

(* a fast tick announces gas from a level read before the last turn-on *)
StaleGasAnnounced ==
    /\ op = "fastTick"
    /\ Announces("GAS DETECTED!")
    /\ GasReadAt < startTime

(* C23: at each fast tick the sample that is classified has been acquired  *)
(* at that tick in all its fields.  Temperature, humidity, distance,       *)
(* pitch, roll and yaw are assigned by the tick itself; for the gas level  *)
(* the statement is that it was read in the iteration of this tick, whose  *)
(* start the tick has stored in lastDHTUpdate.                             *)
C23_FreshSample == op = "fastTick" => GasReadAt = lastDHTUpdate

-----------------------------------------------------------------------------
(* a telemetry tick at or before EarlyTick leaves room for the next one    *)
(* before the clock of the model ends                                      *)
EarlyTick == MaxTime - UPDATE_INTERVAL - DHT_INTERVAL

(* C24: while the vehicle stays on and the clock advances, a telemetry     *)
(* tick comes, and after it the next one; each of them reads the gas level *)
(* and leaves the state Alert if the level is >= 460 and Active if it is   *)
(* below, so a level that stays >= 460 leads to Alert and a level that     *)
(* then stays below leads back to Active.  The state changes at a          *)
(* telemetry tick only, never at a fast tick, and the telemetry tick runs  *)
(* in the first iteration that finds the interval elapsed.                 *)
C24_GasLiveness ==
    /\ (lastSent < 0) ~> (op = "telemetry")
    /\ (op = "telemetry" /\ lastUpdateTime <= EarlyTick)
          ~> (op = "telemetry" /\ lastUpdateTime > EarlyTick)
    /\ [][/\ op' = "telemetry" =>
                currentState' = IF currentData'.gasLevel >= MQ2_THRESHOLD
                                THEN STATE_ALERT
                                ELSE STATE_ACTIVE
          /\ currentState' # currentState => op' = "telemetry"
          /\ (/\ pc = "telemetry"
              /\ Elapsed(currentTime, lastUpdateTime) >= UPDATE_INTERVAL)
                => op' = "telemetry"
         ]_vars

(* gas was read at the first tick and the state became Alert; at the next  *)
(* tick the level was below the threshold and the state is Active again    *)
C24_Witness ==
    /\ op = "telemetry"
    /\ lastUpdateTime > EarlyTick
    /\ currentState = STATE_ACTIVE
    /\ previousState = STATE_ALERT
    /\ currentData.gasLevel < MQ2_THRESHOLD

-----------------------------------------------------------------------------
(* the records printed in an iteration *)
Emitted(tr) == EventsOf(tr, "csv")

(* C25: every emitted record carries the operating state as it is after    *)
(* the gas-driven update of the same tick.  A record is printed by a       *)
(* telemetry tick only, one for each tick, and never while the state is    *)
(* Off; its state field is the state the tick ends in, which is Active (2) *)
(* or Alert (3), and it is Alert exactly when the gas field of the same    *)
(* record, the level the tick has just read, is >= 460.                    *)
C25_RecordCarriesUpdatedState ==
    [][/\ (Emitted(trace') # <<>> /\ Emitted(trace') # Emitted(trace)) =>
             /\ op' = "telemetry"
             /\ currentState # STATE_OFF
             /\ Len(Emitted(trace')) = 1
             /\ LET rec == Emitted(trace')[1][2]
                IN  /\ rec[5] = currentState'
                    /\ rec[5] \in {STATE_ACTIVE, STATE_ALERT}
                    /\ rec[3] = currentData'.gasLevel
                    /\ (rec[5] = STATE_ALERT) <=> (rec[3] >= MQ2_THRESHOLD)
       /\ op' = "telemetry" => Emitted(trace') # Emitted(trace)
       /\ currentState' = STATE_OFF => Emitted(trace') = <<>>
      ]_vars

(* the tick has read gas 460 in Active and its record says Alert *)
C25_Witness ==
    /\ op = "telemetry"
    /\ previousState = STATE_ACTIVE
    /\ currentState = STATE_ALERT
    /\ Len(Emitted(trace)) = 1
    /\ Emitted(trace)[1][2][3] = MQ2_THRESHOLD
    /\ Emitted(trace)[1][2][5] = STATE_ALERT

-----------------------------------------------------------------------------
(* C26: after any sequence of remote commands and sensor-driven updates    *)
(* the motor is on if and only if the operating state is Idle, Active or   *)
(* Alert, and off if and only if the state is Off or Error.                *)
C26_MotorFollowsState ==
    /\ motor <=> currentState \in {STATE_IDLE, STATE_ACTIVE, STATE_ALERT}
    /\ ~motor <=> currentState \in {STATE_OFF, STATE_ERROR}

(* the motor has been stopped by the entry into Error from Alert *)
C26_Witness ==
    /\ currentState = STATE_ERROR
    /\ previousState = STATE_ALERT
    /\ ~motor
    /\ EventsOf(trace, "motor") = <<Ev("motor", "off")>>

-----------------------------------------------------------------------------
(* C27: whenever the main loop is at an iteration boundary, cloud-connected *)
(* implies that the operating state is not Off.  The flag is set only by a  *)
(* CLOUD_OK received during the handshake of a turn-on, in Active; a step   *)
(* that enters Off leaves it cleared; and the feedback of the host is read  *)
(* only while the flag is set and the state is not Off.                     *)
C27_ConnectedOnlyWhileOn ==
    /\ [](pc = "loop" /\ cloudConnected => currentState # STATE_OFF)
    /\ [][/\ (cloudConnected' /\ ~cloudConnected) =>
                /\ op' = "cloudOk"
                /\ pc = "connect"
                /\ currentState = STATE_ACTIVE
                /\ currentState' = STATE_ACTIVE
          /\ (currentState' = STATE_OFF /\ currentState # STATE_OFF) =>
                /\ op' = "irOff"
                /\ ~cloudConnected'
          /\ op' = "readThingSpeak" =>
                /\ cloudConnected
                /\ currentState # STATE_OFF
         ]_vars

(* a connected vehicle in Alert has read the feedback of the host *)
C27_Witness ==
    /\ op = "readThingSpeak"
    /\ pc = "fast"
    /\ cloudConnected
    /\ currentState = STATE_ALERT

====
